---- MODULE Spec2Model ----
(***************************************************************************)
(* A model of the SOCKS6 core of socksx: the option TLV codec, the request *)
(* framing, the options-block reader, the client's connect() handshake,    *)
(* the handler's handle_request(), the chain resolver and the accept loop *)
(* of the redirector with its per-connection tasks.                        *)
(*                                                                         *)
(* Bytes are integers 0..255, byte strings are sequences of bytes.  u16    *)
(* arithmetic keeps its width: `as u16` casts truncate modulo 2^16, and    *)
(* u16 +/- panics in a debug build and wraps in a release build (the       *)
(* variable build picks the profile).                                      *)
(***************************************************************************)
EXTENDS Integers, Sequences, FiniteSets, TLC

VARIABLES
    build,      \* "debug" | "release": the profile the crate was compiled with
    cin,        \* codec: the call being made (operation and its argument)
    cpc,        \* codec: "call" before the operation ran, "ret" after
    cres,       \* codec: the value the operation returned
    h_in,       \* handler: the bytes the inbound peer sends, in order
    h_eof,      \* handler: whether the peer closes its side after those bytes
    h_pos,      \* handler: how many inbound bytes handle_request has read
    h_pc,       \* handler: the await point handle_request is at
    h_loc,      \* handler: the local variables of handle_request
    h_log,      \* handler: the writes and connects it made, in order
    h_ret,      \* handler: "none" while running, else "Ok", "Err" or "Panic"
    k_self,     \* client: the Socks6Client (its credentials)
    k_args,     \* client: the arguments of connect()
    k_proxy,    \* client: the bytes the proxy sends back, in order
    k_peof,     \* client: whether the proxy closes after those bytes
    k_pos,      \* client: how many of the proxy's bytes connect() has read
    k_pc,       \* client: the await point connect() is at
    k_loc,      \* client: the local variables of connect()
    k_log,      \* client: the connect, writes and reads on the proxy stream
    k_ret,      \* client: "none" while running, else "Ok", "Err" or "Panic"
    r_metadata, \* chain: the metadata map of the request chain() is called on
    r_static,   \* chain: the static_links argument
    r_pc,       \* chain: "call" before chain() ran, "ret" after
    r_res,      \* chain: what chain() came to
    d_version,  \* redirector: the VERSION argument of the command line
    d_pc,       \* redirector: the point main is at
    d_ret,      \* redirector: "none" while main runs, else "Err" or "Panic"
    d_tasks     \* redirector: the tasks spawned so far, in the order of accept

codec_vars == <<cin, cpc, cres>>
handler_vars == <<h_in, h_eof, h_pos, h_pc, h_loc, h_log, h_ret>>
client_vars == <<k_self, k_args, k_proxy, k_peof, k_pos, k_pc, k_loc, k_log, k_ret>>
chain_vars == <<r_metadata, r_static, r_pc, r_res>>
redirector_vars == <<d_version, d_pc, d_ret, d_tasks>>
vars == <<build, codec_vars, handler_vars, client_vars, chain_vars, redirector_vars>>

\* What the actions of each component leave alone.
codec_env == <<build, handler_vars, client_vars, chain_vars, redirector_vars>>
handler_env == <<build, codec_vars, client_vars, chain_vars, redirector_vars>>
client_env == <<build, codec_vars, handler_vars, chain_vars, redirector_vars>>
chain_env == <<build, codec_vars, handler_vars, client_vars, redirector_vars>>
redirector_env == <<build, codec_vars, handler_vars, client_vars, chain_vars>>

(***************************************************************************)
(* Bounds of the model.                                                    *)
(***************************************************************************)
MaxDataLen == 4
MaxOptions == 2
MaxInitialData == 2

(***************************************************************************)
(* Protocol constants (crate::constants).                                  *)
(***************************************************************************)
SOCKS_VER_6 == 6
SOCKS_CMD_CONNECT == 1
SOCKS_PADDING == 0
SOCKS_ATYP_IPV4 == 1
SOCKS_ATYP_DOMAINNAME == 3
SOCKS_ATYP_IPV6 == 4
SOCKS_AUTH_SUCCESS == 0
SOCKS_AUTH_USERNAME_PASSWORD == 2
SOCKS_REP_SUCCEEDED == 0
SOCKS_OKIND_AUTH_METH_ADV == 2
SOCKS_OKIND_AUTH_METH_SEL == 3
SOCKS_OKIND_METADATA == 65000

Builds == {"debug", "release"}

(***************************************************************************)
(* Integer helpers.                                                        *)
(***************************************************************************)
\* `x as u16`: truncation to 16 bits.
as_u16(x) == x % 65536

\* `u16::to_be_bytes`.
to_be_bytes(x) == <<(x \div 256) % 256, x % 256>>

\* `((hi as u16) << 8) | lo as u16`.
from_be_bytes(hi, lo) == hi * 256 + lo

\* `vec![b; n]`, as a sequence value.
filled(b, n) == <<>> \o [i \in 1..n |-> b]

\* `vec![0; n]`.
zeros(n) == filled(0, n)

\* `flat_map(...).collect()` over a list of byte strings.
RECURSIVE flatten(_)
flatten(ss) ==
    IF ss = <<>> THEN <<>> ELSE Head(ss) \o flatten(Tail(ss))

\* All sequences over S of length 0..n.
SeqsUpTo(S, n) == UNION {[1..k -> S] : k \in 0..n}

(***************************************************************************)
(* A Vec<u8> held in a state variable is kept as its runs of equal bytes   *)
(* (<<[byte, count], ...>>), so that a buffer of 2^16 bytes stays small.   *)
(* The operations themselves work on plain byte sequences: a buffer is     *)
(* loaded before an operation reads it and stored after it was written.    *)
(* store and load are inverse to each other.                               *)
(***************************************************************************)
store(bytes) ==
    LET starts == {i \in 1..Len(bytes) : i = 1 \/ bytes[i] # bytes[i - 1]}
        k == Cardinality(starts)
        nth(j) == CHOOSE i \in starts : Cardinality({x \in starts : x < i}) = j - 1
        end(j) == IF j = k THEN Len(bytes) + 1 ELSE nth(j + 1)
    IN  [j \in 1..k |-> [byte |-> bytes[nth(j)], count |-> end(j) - nth(j)]]

RECURSIVE load(_)
load(runs) ==
    IF runs = <<>> THEN <<>>
    ELSE filled(Head(runs).byte, Head(runs).count) \o load(Tail(runs))

\* `len()` of a stored buffer, and a stored `vec![b; n]` (n > 0).
RECURSIVE stored_len(_)
stored_len(runs) ==
    IF runs = <<>> THEN 0 ELSE Head(runs).count + stored_len(Tail(runs))

stored_filled(b, n) == <<[byte |-> b, count |-> n]>>

\* A SocksOption {kind, data} and a list of them, stored and loaded.
store_option(o) == [o EXCEPT !.data = store(o.data)]
load_option(o) == [o EXCEPT !.data = load(o.data)]
store_options(os) == [i \in 1..Len(os) |-> store_option(os[i])]
load_options(os) == [i \in 1..Len(os) |-> load_option(os[i])]

(***************************************************************************)
(* SocksOption::as_socks_bytes (src/src/socks6.rs:24-38).                  *)
(***************************************************************************)
as_socks_bytes(option) ==
    LET option_length == Len(option.data) + 2 + 2
        padding_bytes == zeros(4 - (option_length % 4))
        total_length  == as_u16(option_length + Len(padding_bytes))
    IN  to_be_bytes(option.kind) \o to_be_bytes(total_length)
            \o option.data \o padding_bytes

(***************************************************************************)
(* Address::as_socks_bytes: [type tag, address bytes, port_hi, port_lo];   *)
(* a domain name is preceded by its length.                                *)
(***************************************************************************)
address_as_socks_bytes(a) ==
    CASE a.atyp = SOCKS_ATYP_IPV4 ->
            <<SOCKS_ATYP_IPV4>> \o a.host \o to_be_bytes(a.port)
      [] a.atyp = SOCKS_ATYP_IPV6 ->
            <<SOCKS_ATYP_IPV6>> \o a.host \o to_be_bytes(a.port)
      [] a.atyp = SOCKS_ATYP_DOMAINNAME ->
            <<SOCKS_ATYP_DOMAINNAME, Len(a.host)>> \o a.host \o to_be_bytes(a.port)

(***************************************************************************)
(* Socks6Request::into_socks_bytes (socksx/src/socks6/mod.rs:108-120).     *)
(***************************************************************************)
\* Mutant: writes the options length little-endian.
into_socks_bytes_le(request) ==
    LET options_bytes == flatten([i \in 1..Len(request.options) |->
                                      as_socks_bytes(request.options[i])])
        options_bytes_length == to_be_bytes(as_u16(Len(options_bytes)))
    IN  <<SOCKS_VER_6, SOCKS_CMD_CONNECT>>
            \o address_as_socks_bytes(request.destination)
            \o <<SOCKS_PADDING>>
            \o <<options_bytes_length[2], options_bytes_length[1]>>
            \o options_bytes

into_socks_bytes(request) ==
    LET options_bytes == flatten([i \in 1..Len(request.options) |->
                                      as_socks_bytes(request.options[i])])
        options_bytes_length == to_be_bytes(as_u16(Len(options_bytes)))
    IN  <<SOCKS_VER_6, SOCKS_CMD_CONNECT>>
            \o address_as_socks_bytes(request.destination)
            \o <<SOCKS_PADDING>>
            \o options_bytes_length
            \o options_bytes

(***************************************************************************)
(* Typed option decoders (socks6::options): an AuthMethodAdvertisement     *)
(* body is [initial_data_len_hi, initial_data_len_lo, methods...], a       *)
(* Metadata body is [key_hi, key_lo, value...], an AuthMethodSelection     *)
(* body starts with the method.  A decoded option keeps its kind and body; *)
(* typed fields are read off the body.                                     *)
(***************************************************************************)
Malformed == [variant |-> "Malformed"]

AuthMethodAdvertisementOption_from_socks_bytes(data) ==
    IF Len(data) < 2 THEN Malformed
    ELSE [variant |-> "AuthMethodAdvertisement",
          kind |-> SOCKS_OKIND_AUTH_METH_ADV, data |-> data]

AuthMethodSelectionOption_from_socks_bytes(data) ==
    IF Len(data) < 1 THEN Malformed
    ELSE [variant |-> "AuthMethodSelection",
          kind |-> SOCKS_OKIND_AUTH_METH_SEL, data |-> data]

MetadataOption_from_socks_bytes(data) ==
    IF Len(data) < 2 THEN Malformed
    ELSE [variant |-> "Metadata", kind |-> SOCKS_OKIND_METADATA, data |-> data]

UnrecognizedOption_new(kind, data) ==
    [variant |-> "Unrecognized", kind |-> kind, data |-> data]

\* advertisement.initial_data_length
initial_data_length_of(option) == from_be_bytes(option.data[1], option.data[2])

(***************************************************************************)
(* read_options (socksx/src/socks6/mod.rs:174-210).  The stream is the     *)
(* byte string the peer sent, followed by end-of-file: read_exact past the *)
(* end fails with an I/O error.  The result records how the call ended,    *)
(* the options decoded, the running counter and the bytes consumed.        *)
(***************************************************************************)
read_options_ret(status, options, options_bytes_read, pos) ==
    [status |-> status, options |-> options,
     options_bytes_read |-> options_bytes_read, consumed |-> pos]

\* match kind { ... } (lines 198-203)
read_options_match(kind, options_data) ==
    CASE kind = SOCKS_OKIND_AUTH_METH_ADV ->
            AuthMethodAdvertisementOption_from_socks_bytes(options_data)
      [] kind = SOCKS_OKIND_AUTH_METH_SEL ->
            AuthMethodSelectionOption_from_socks_bytes(options_data)
      [] kind = SOCKS_OKIND_METADATA ->
            MetadataOption_from_socks_bytes(options_data)
      [] OTHER -> UnrecognizedOption_new(kind, options_data)

\* The while loop (lines 186-207); prof is the build profile.
RECURSIVE read_options_loop(_, _, _, _, _, _)
read_options_loop(prof, stream, pos, options_length, options_bytes_read, options) ==
    IF ~(options_bytes_read < options_length)
    THEN read_options_ret("Ok", options, options_bytes_read, pos)
    ELSE IF Len(stream) - pos < 4
    THEN read_options_ret("IoError", options, options_bytes_read, pos)
    ELSE
        LET kind   == from_be_bytes(stream[pos + 1], stream[pos + 2])
            length == from_be_bytes(stream[pos + 3], stream[pos + 4])
        IN  IF length < 4 /\ prof = "debug"
            THEN \* `length - 4` overflows: a debug build panics
                 read_options_ret("Panic", options, options_bytes_read, pos + 4)
            ELSE
                LET data_len == as_u16(length - 4 + 65536)
                IN  IF Len(stream) - (pos + 4) < data_len
                    THEN read_options_ret("IoError", options, options_bytes_read, pos + 4)
                    ELSE
                        LET options_data == SubSeq(stream, pos + 5, pos + 4 + data_len)
                            option == read_options_match(kind, options_data)
                        IN  IF option = Malformed
                            THEN read_options_ret("Malformed", options,
                                                  options_bytes_read, pos + 4 + data_len)
                            ELSE IF options_bytes_read + length > 65535 /\ prof = "debug"
                            THEN \* `options_bytes_read += length` overflows
                                 read_options_ret("Panic", Append(options, option),
                                                  options_bytes_read, pos + 4 + data_len)
                            ELSE read_options_loop(prof, stream, pos + 4 + data_len,
                                                   options_length,
                                                   as_u16(options_bytes_read + length),
                                                   Append(options, option))

read_options(prof, stream) ==
    IF Len(stream) < 2
    THEN read_options_ret("IoError", <<>>, 0, 0)
    ELSE read_options_loop(prof, stream, 2,
                           from_be_bytes(stream[1], stream[2]), 0, <<>>)

(***************************************************************************)
(* addresses::read_address: the inverse of Address::as_socks_bytes, from   *)
(* position pos of the stream; an unknown type tag is an error, a stream   *)
(* that ends early an I/O error.                                           *)
(***************************************************************************)
read_address_ret(status, address, pos) ==
    [status |-> status, address |-> address, consumed |-> pos]

read_address(stream, pos) ==
    LET NoAddress == [atyp |-> 0, host |-> <<>>, port |-> 0]
        left == Len(stream) - pos
        fixed(atyp, n) ==
            IF left < 1 + n + 2 THEN read_address_ret("IoError", NoAddress, pos)
            ELSE read_address_ret("Ok",
                    [atyp |-> atyp, host |-> SubSeq(stream, pos + 2, pos + 1 + n),
                     port |-> from_be_bytes(stream[pos + 2 + n], stream[pos + 3 + n])],
                    pos + 1 + n + 2)
    IN  IF left < 1 THEN read_address_ret("IoError", NoAddress, pos)
        ELSE CASE stream[pos + 1] = SOCKS_ATYP_IPV4 -> fixed(SOCKS_ATYP_IPV4, 4)
               [] stream[pos + 1] = SOCKS_ATYP_IPV6 -> fixed(SOCKS_ATYP_IPV6, 16)
               [] stream[pos + 1] = SOCKS_ATYP_DOMAINNAME ->
                    IF left < 2 \/ left < 2 + stream[pos + 2] + 2
                    THEN read_address_ret("IoError", NoAddress, pos)
                    ELSE LET n == stream[pos + 2]
                         IN  read_address_ret("Ok",
                                [atyp |-> SOCKS_ATYP_DOMAINNAME,
                                 host |-> SubSeq(stream, pos + 3, pos + 2 + n),
                                 port |-> from_be_bytes(stream[pos + 3 + n],
                                                        stream[pos + 4 + n])],
                                pos + 2 + n + 2)
               [] OTHER -> read_address_ret("Malformed", NoAddress, pos + 1)

(***************************************************************************)
(* read_request (socksx/src/socks6/mod.rs:124-171).                        *)
(***************************************************************************)
\* metadata.insert(key, value) on a map kept as a function.
metadata_insert(metadata, key, value) ==
    [k \in DOMAIN metadata \cup {key} |-> IF k = key THEN value ELSE metadata[k]]

\* The loop over the decoded options (lines 145-162), from option i on.
RECURSIVE read_request_project(_, _, _, _)
read_request_project(options, i, initial_data_length, metadata) ==
    IF i > Len(options)
    THEN [initial_data_length |-> initial_data_length, metadata |-> metadata]
    ELSE LET option == options[i]
         IN  CASE option.variant = "AuthMethodAdvertisement" ->
                    read_request_project(options, i + 1,
                                         initial_data_length_of(option), metadata)
               [] option.variant = "Metadata" ->
                    LET key == from_be_bytes(option.data[1], option.data[2])
                        value == SubSeq(option.data, 3, Len(option.data))
                    IN  read_request_project(
                            options, i + 1, initial_data_length,
                            metadata_insert(metadata_insert(metadata, key, value),
                                            key, value))
               [] OTHER ->
                    read_request_project(options, i + 1, initial_data_length, metadata)

read_request_err(status) == [status |-> status]

read_request(prof, stream) ==
    IF Len(stream) < 2 THEN read_request_err("IoError")
    ELSE LET version == stream[1]
             command == stream[2]
         IN  IF version # SOCKS_VER_6 \/ command # SOCKS_CMD_CONNECT
             THEN read_request_err("Err")
             ELSE LET destination == read_address(stream, 2)
                  IN  IF destination.status # "Ok"
                      THEN read_request_err(destination.status)
                      ELSE IF Len(stream) - destination.consumed < 1
                      THEN read_request_err("IoError")
                      ELSE LET rest == SubSeq(stream, destination.consumed + 2, Len(stream))
                               options == read_options(prof, rest)
                           IN  IF options.status # "Ok"
                               THEN read_request_err(options.status)
                               ELSE LET projected == read_request_project(
                                                        options.options, 1, 0, <<>>)
                                    IN  [status |-> "Ok",
                                         command |-> command,
                                         destination |-> destination.address,
                                         initial_data_length |->
                                             projected.initial_data_length,
                                         options |-> options.options,
                                         metadata |-> projected.metadata]

(***************************************************************************)
(* write_reply and read_reply (socksx/src/socks6/mod.rs:284-330).          *)
(***************************************************************************)
write_reply(reply) ==
    <<SOCKS_VER_6, reply, SOCKS_PADDING, SOCKS_ATYP_IPV4,
      0, 0, 0, 0, 0, 0, 0, 0>>

read_reply(prof, stream) ==
    IF Len(stream) < 3 THEN [status |-> "IoError"]
    ELSE LET reply_code == stream[2]
         IN  IF reply_code # SOCKS_REP_SUCCEEDED THEN [status |-> "Err"]
             ELSE LET binding == read_address(stream, 3)
                  IN  IF binding.status # "Ok" THEN [status |-> binding.status]
                      ELSE LET options == read_options(
                                            prof, SubSeq(stream, binding.consumed + 1,
                                                         Len(stream)))
                           IN  IF options.status # "Ok" THEN [status |-> options.status]
                               ELSE [status |-> "Ok", binding |-> binding.address,
                                     options |-> options.options,
                                     consumed |-> binding.consumed + options.consumed]

(***************************************************************************)
(* Inputs of the codec operations.                                         *)
(***************************************************************************)
ByteVals == {0, 7}
OptionKinds == {SOCKS_OKIND_AUTH_METH_ADV, SOCKS_OKIND_METADATA, 4660}

\* Data sizes at the top of the u16 range, where the length field is at stake.
LargeDataLens == {65536 - 9, 65536 - 8}

SocksOptions ==
    {[kind |-> k, data |-> d] :
        k \in OptionKinds, d \in SeqsUpTo(ByteVals, MaxDataLen)}
    \cup {[kind |-> 4660, data |-> filled(7, n)] : n \in LargeDataLens}

Connect == "Connect"
Bind == "Bind"

IPv4Example == [atyp |-> SOCKS_ATYP_IPV4, host |-> <<192, 168, 1, 1>>, port |-> 80]
DomainExample == [atyp |-> SOCKS_ATYP_DOMAINNAME, host |-> <<97, 98>>, port |-> 8080]
IPv6Example == [atyp |-> SOCKS_ATYP_IPV6, host |-> zeros(15) \o <<1>>, port |-> 443]
Addresses == {IPv4Example, DomainExample, IPv6Example}

\* Socks6Request::new (socksx/src/socks6/mod.rs:58-72)
Socks6Request_new(command, destination, initial_data_length, options) ==
    [command |-> command, destination |-> destination,
     initial_data_length |-> initial_data_length, options |-> options]

RequestOptions ==
    {[kind |-> SOCKS_OKIND_AUTH_METH_ADV, data |-> <<0, 0, 2>>],
     [kind |-> 4660, data |-> <<>>],
     [kind |-> 4660, data |-> <<7>>]}

Requests ==
    {Socks6Request_new(c, a, 0, os) :
        c \in {Connect, Bind}, a \in Addresses,
        os \in SeqsUpTo(RequestOptions, MaxOptions)}
    \cup {Socks6Request_new(Connect, IPv4Example, 0,
                            <<[kind |-> 4660, data |-> filled(7, 65536 - 9)]>>)}
    \cup {Socks6Request_new(Connect, IPv4Example, 0,
                            <<[kind |-> 4660, data |-> filled(7, 32768)],
                              [kind |-> 4660, data |-> filled(7, 32768)]>>)}

\* Option bytes as a peer may send them: any kind, any length field, any body.
WireOptions ==
    {to_be_bytes(k) \o to_be_bytes(l) \o b :
        k \in {SOCKS_OKIND_AUTH_METH_ADV, 4660},
        l \in {3, 4, 8},
        b \in {<<>>, <<0, 0, 0, 0>>, <<0, 1, 7, 0>>}}

OptionStreams ==
    {to_be_bytes(n) \o flatten(ws) :
        n \in {0, 4, 8, 12, 16}, ws \in SeqsUpTo(WireOptions, MaxOptions)}

NoOption == [kind |-> 0, data |-> <<>>]

\* The option lists a request may carry to read_request: advertisements of
\* different initial data lengths, metadata (key 998 = "0"), other options.
ReadRequestOptions ==
    {[kind |-> SOCKS_OKIND_AUTH_METH_ADV, data |-> <<0, 1>>],
     [kind |-> SOCKS_OKIND_AUTH_METH_ADV, data |-> <<0, 2, SOCKS_AUTH_USERNAME_PASSWORD>>],
     [kind |-> SOCKS_OKIND_METADATA, data |-> to_be_bytes(998) \o <<48>>],
     [kind |-> 4660, data |-> <<7>>]}

ReadRequestStreams ==
    {<<v, c>> \o address_as_socks_bytes(a) \o <<SOCKS_PADDING>>
        \o to_be_bytes(Len(block)) \o block :
        v \in {SOCKS_VER_6, 5}, c \in {SOCKS_CMD_CONNECT, 2}, a \in Addresses,
        block \in {flatten([i \in 1..Len(os) |-> as_socks_bytes(os[i])]) :
                    os \in SeqsUpTo(ReadRequestOptions, MaxOptions)}}
    \cup {<<SOCKS_VER_6>>, <<SOCKS_VER_6, SOCKS_CMD_CONNECT, 9, 0, 0>>,
          <<SOCKS_VER_6, SOCKS_CMD_CONNECT, SOCKS_ATYP_IPV4, 10, 0>>,
          <<SOCKS_VER_6, SOCKS_CMD_CONNECT>> \o address_as_socks_bytes(IPv4Example)}

\* Socks6Reply (mod.rs:270-281): Success = 0x00 .. ConnectionAttemptTimeOut = 0x09.
Socks6Replies == 0..9

\* Replies as the handler of src/src/socks6.rs lays them out.
ReplyStreams ==
    {<<SOCKS_VER_6, r, 0, 0, SOCKS_PADDING, SOCKS_ATYP_IPV4, 0, 0, 0, 0, 0, 0>> :
        r \in {0, 5}}

CodecCalls ==
    {[op |-> "as_socks_bytes", option |-> store_option(o)] : o \in SocksOptions}
    \cup {[op |-> "into_socks_bytes",
           request |-> [r EXCEPT !.options = store_options(r.options)]] :
            r \in Requests}
    \cup {[op |-> "read_options", stream |-> store(st), echo |-> FALSE,
           origin |-> store_option(NoOption)] : st \in OptionStreams}
    \cup {[op |-> "read_request", stream |-> store(st)] : st \in ReadRequestStreams}
    \cup {[op |-> "write_reply", reply |-> r] : r \in Socks6Replies}
    \cup {[op |-> "read_reply", stream |-> store(st), echo |-> FALSE] :
            st \in ReplyStreams}

\* The argument of the current call and the value it returned, loaded.
arg_option == load_option(cin.option)
arg_request == [cin.request EXCEPT !.options = load_options(cin.request.options)]
arg_stream == load(cin.stream)
arg_origin == load_option(cin.origin)
ret_bytes == load(cres)
ret_options == load_options(cres.options)

(***************************************************************************)
(* The codec as a state machine: a call is chosen, the operation runs and  *)
(* returns; the bytes as_socks_bytes returned may then be framed as an     *)
(* options block and handed to read_options.                               *)
(***************************************************************************)
CodecInit ==
    /\ cin \in CodecCalls
    /\ cpc = "call"
    /\ cres = <<>>

\* No codec call is in progress.
CodecIdle ==
    /\ cin = [op |-> "none"]
    /\ cpc = "ret"
    /\ cres = <<>>

CallAsSocksBytes ==
    /\ cpc = "call"
    /\ cin.op = "as_socks_bytes"
    /\ cres' = store(as_socks_bytes(arg_option))
    /\ cpc' = "ret"
    /\ UNCHANGED <<cin, codec_env>>

CallIntoSocksBytes ==
    /\ cpc = "call"
    /\ cin.op = "into_socks_bytes"
    /\ cres' = store(into_socks_bytes(arg_request))
    /\ cpc' = "ret"
    /\ UNCHANGED <<cin, codec_env>>

CallReadOptions ==
    /\ cpc = "call"
    /\ cin.op = "read_options"
    /\ cres' = LET r == read_options(build, arg_stream)
                IN  [r EXCEPT !.options = store_options(r.options)]
    /\ cpc' = "ret"
    /\ UNCHANGED <<cin, codec_env>>

\* The encoded option goes on the wire behind its block length, as
\* into_socks_bytes frames it (mod.rs:113-117), and is read back.
SendEncoded ==
    /\ cpc = "ret"
    /\ cin.op = "as_socks_bytes"
    /\ cin' = [op |-> "read_options",
               stream |-> store(to_be_bytes(as_u16(Len(ret_bytes))) \o ret_bytes),
               echo |-> TRUE, origin |-> cin.option]
    /\ cpc' = "call"
    /\ cres' = <<>>
    /\ UNCHANGED codec_env

CallReadRequest ==
    /\ cpc = "call"
    /\ cin.op = "read_request"
    /\ cres' = read_request(build, arg_stream)
    /\ cpc' = "ret"
    /\ UNCHANGED <<cin, codec_env>>

CallWriteReply ==
    /\ cpc = "call"
    /\ cin.op = "write_reply"
    /\ cres' = store(write_reply(cin.reply))
    /\ cpc' = "ret"
    /\ UNCHANGED <<cin, codec_env>>

CallReadReply ==
    /\ cpc = "call"
    /\ cin.op = "read_reply"
    /\ cres' = read_reply(build, arg_stream)
    /\ cpc' = "ret"
    /\ UNCHANGED <<cin, codec_env>>

\* The reply write_reply wrote reaches a peer that calls read_reply.
SendReply ==
    /\ cpc = "ret"
    /\ cin.op = "write_reply"
    /\ cin' = [op |-> "read_reply", stream |-> cres, echo |-> TRUE]
    /\ cpc' = "call"
    /\ cres' = <<>>
    /\ UNCHANGED codec_env

CodecNext ==
    \/ CallAsSocksBytes
    \/ CallIntoSocksBytes
    \/ CallReadOptions
    \/ SendEncoded
    \/ CallReadRequest
    \/ CallWriteReply
    \/ CallReadReply
    \/ SendReply

(***************************************************************************)
(* Socks6Handler::handle_request (src/src/socks6.rs:209-307), one action   *)
(* per await point.  read_exact(n) takes the next n inbound bytes; when    *)
(* fewer are left it fails with an I/O error if the peer has closed and    *)
(* waits otherwise.  A write hands the whole buffer to the stream.         *)
(***************************************************************************)
HandlerLocals ==
    [request |-> <<>>, atyp |-> 0, dst_addr |-> <<>>, dst_port |-> 0,
     length |-> 0, options_length |-> 0, reply_options |-> <<>>,
     initial_data_len |-> 0, initial_data |-> <<>>]

\* The room a connected TCP socket has for outgoing bytes at the least.
SocketSendRoom == 4096

\* What AsyncWriteExt::write may return for a buffer of len bytes: the
\* socket takes a buffer that fits its room whole, and of a larger one
\* possibly only a part.
WriteCounts(len) == IF len <= SocketSendRoom THEN {len} ELSE {SocketSendRoom, len}

\* The events handle_request leaves behind.
InboundWrite(bytes) == [ev |-> "write", bytes |-> bytes]
OutboundConnect(dst, ok) == [ev |-> "connect", dst |-> dst, ok |-> ok]
\* A write to the outbound connection hands it a buffer; the connection
\* takes n of its bytes.
OutboundWrite(bytes, n) == [ev |-> "out_write", bytes |-> bytes, n |-> n]
InboundFlush == [ev |-> "flush"]

\* The number of bytes the read_exact at the current await point asks for.
h_want ==
    CASE h_pc = "read_request" -> 3
      [] h_pc = "read_ipv4" -> 4
      [] h_pc = "read_ipv6" -> 16
      [] h_pc = "read_domain_length" -> 1
      [] h_pc = "read_domain" -> h_loc.length
      [] h_pc = "read_port" -> 3
      [] h_pc = "read_options_length" -> 2
      [] h_pc = "read_options" -> h_loc.options_length
      [] h_pc = "read_initial_data" -> h_loc.initial_data_len
      [] OTHER -> 0

h_reading == h_pc \in {"read_request", "read_ipv4", "read_ipv6", "read_domain_length",
                       "read_domain", "read_port", "read_options_length",
                       "read_options", "read_initial_data"}

\* read_exact succeeds at await point pc and yields these bytes.
h_read_exact(pc) ==
    /\ h_ret = "none"
    /\ h_pc = pc
    /\ Len(h_in) - h_pos >= h_want
    /\ h_pos' = h_pos + h_want

h_buffer == SubSeq(h_in, h_pos + 1, h_pos + h_want)

\* handle_request returns (or unwinds) with res.
h_return(res) ==
    /\ h_ret' = res
    /\ h_pc' = "done"

\* String::from_utf8: the inbound bytes of the model are ASCII or 0xFF, and
\* 0xFF occurs in no UTF-8 text.
from_utf8_ok(bytes) == \A i \in 1..Len(bytes) : bytes[i] < 128

\* Lines 214-254: the request head, the version and command checks, the
\* dispatch on the address type.
H_ReadRequest ==
    /\ h_read_exact("read_request")
    /\ LET request == h_buffer
           version == request[1]
           command == request[2]
           atype == request[3]
       IN  /\ h_loc' = [h_loc EXCEPT !.request = request, !.atyp = atype]
           /\ IF version # SOCKS_VER_6
              THEN h_pc' = "write_version" /\ UNCHANGED h_ret
              ELSE IF command # SOCKS_CMD_CONNECT
              THEN h_return("Panic")       \* unimplemented!()
              ELSE IF atype = SOCKS_ATYP_IPV4
              THEN h_pc' = "read_ipv4" /\ UNCHANGED h_ret
              ELSE IF atype = SOCKS_ATYP_IPV6
              THEN h_pc' = "read_ipv6" /\ UNCHANGED h_ret
              ELSE IF atype = SOCKS_ATYP_DOMAINNAME
              THEN h_pc' = "read_domain_length" /\ UNCHANGED h_ret
              ELSE h_return("Panic")       \* unreachable!()
    /\ UNCHANGED <<h_in, h_eof, h_log, handler_env>>

\* Mutant: answers a version mismatch with the peer's own version byte.
H_WriteVersion_echo ==
    /\ h_ret = "none"
    /\ h_pc = "write_version"
    /\ h_log' = Append(h_log, InboundWrite(<<h_loc.request[1]>>))
    /\ h_return("Ok")
    /\ UNCHANGED <<h_in, h_eof, h_pos, h_loc, handler_env>>

\* Lines 218-223: stream.write_u8(SOCKS_VER_6); return Ok(()).
H_WriteVersion ==
    /\ h_ret = "none"
    /\ h_pc = "write_version"
    /\ h_log' = Append(h_log, InboundWrite(<<SOCKS_VER_6>>))
    /\ h_return("Ok")
    /\ UNCHANGED <<h_in, h_eof, h_pos, h_loc, handler_env>>

\* Lines 232-243: a 4-byte or 16-byte address.
H_ReadIp ==
    /\ \/ h_read_exact("read_ipv4")
       \/ h_read_exact("read_ipv6")
    /\ h_loc' = [h_loc EXCEPT !.dst_addr = h_buffer]
    /\ h_pc' = "read_port"
    /\ UNCHANGED <<h_in, h_eof, h_log, h_ret, handler_env>>

\* Lines 245-246: the length of a domain name.
H_ReadDomainLength ==
    /\ h_read_exact("read_domain_length")
    /\ h_loc' = [h_loc EXCEPT !.length = h_buffer[1]]
    /\ h_pc' = "read_domain"
    /\ UNCHANGED <<h_in, h_eof, h_log, h_ret, handler_env>>

\* Lines 248-251: the domain name, which must be UTF-8.
H_ReadDomain ==
    /\ h_read_exact("read_domain")
    /\ h_loc' = [h_loc EXCEPT !.dst_addr = h_buffer]
    /\ IF from_utf8_ok(h_buffer)
       THEN h_pc' = "read_port" /\ UNCHANGED h_ret
       ELSE h_return("Err")
    /\ UNCHANGED <<h_in, h_eof, h_log, handler_env>>

\* Lines 257-261: destination port and padding.
H_ReadPort ==
    /\ h_read_exact("read_port")
    /\ h_loc' = [h_loc EXCEPT !.dst_port = from_be_bytes(h_buffer[1], h_buffer[2])]
    /\ h_pc' = "read_options_length"
    /\ UNCHANGED <<h_in, h_eof, h_log, h_ret, handler_env>>

\* Lines 264-267: the length of the options block.
H_ReadOptionsLength ==
    /\ h_read_exact("read_options_length")
    /\ h_loc' = [h_loc EXCEPT !.options_length = from_be_bytes(h_buffer[1], h_buffer[2])]
    /\ h_pc' = "read_options"
    /\ UNCHANGED <<h_in, h_eof, h_log, h_ret, handler_env>>

\* Lines 269-272: the options block; bytes 4 and 5 of it are taken as the
\* initial data length.  Indexing a block shorter than 6 bytes panics.
H_ReadOptions ==
    /\ h_read_exact("read_options")
    /\ LET reply_options == h_buffer
       IN  IF Len(reply_options) < 6
           THEN /\ h_loc' = [h_loc EXCEPT !.reply_options = reply_options]
                /\ h_return("Panic")
           ELSE /\ h_loc' = [h_loc EXCEPT
                               !.reply_options = reply_options,
                               !.initial_data_len =
                                   from_be_bytes(reply_options[5], reply_options[6])]
                /\ h_pc' = "read_initial_data"
                /\ UNCHANGED h_ret
    /\ UNCHANGED <<h_in, h_eof, h_log, handler_env>>

\* Lines 274-275: the initial data.
H_ReadInitialData ==
    /\ h_read_exact("read_initial_data")
    /\ h_loc' = [h_loc EXCEPT !.initial_data = h_buffer]
    /\ h_pc' = "write_auth_reply"
    /\ UNCHANGED <<h_in, h_eof, h_log, h_ret, handler_env>>

\* Any read_exact: the peer closed before sending the bytes asked for.
H_ReadEof ==
    /\ h_ret = "none"
    /\ h_reading
    /\ Len(h_in) - h_pos < h_want
    /\ h_eof
    /\ h_return("Err")
    /\ UNCHANGED <<h_in, h_eof, h_pos, h_loc, h_log, handler_env>>

\* Lines 278-279: the authentication reply.
H_WriteAuthReply ==
    /\ h_ret = "none"
    /\ h_pc = "write_auth_reply"
    /\ h_log' = Append(h_log, InboundWrite(<<SOCKS_VER_6, SOCKS_AUTH_SUCCESS, 0, 0>>))
    /\ h_pc' = "connect"
    /\ UNCHANGED <<h_in, h_eof, h_pos, h_loc, h_ret, handler_env>>

\* The destination handle_request dials: format!("{}:{}", dst_addr, dst_port).
h_dst == [atyp |-> h_loc.atyp, host |-> h_loc.dst_addr, port |-> h_loc.dst_port]

\* Mutant: goes on to the replies whether or not the dial succeeded.
H_Connect_unchecked ==
    /\ h_ret = "none"
    /\ h_pc = "connect"
    /\ \E ok \in BOOLEAN :
        h_log' = Append(h_log, OutboundConnect(h_dst, ok))
    /\ h_pc' = "write_initial_data"
    /\ UNCHANGED <<h_in, h_eof, h_pos, h_loc, h_ret, handler_env>>

\* Line 282: TcpStream::connect(dst) succeeds, or fails and returns the error.
H_Connect ==
    /\ h_ret = "none"
    /\ h_pc = "connect"
    /\ \E ok \in BOOLEAN :
        /\ h_log' = Append(h_log, OutboundConnect(h_dst, ok))
        /\ IF ok THEN h_pc' = "write_initial_data" /\ UNCHANGED h_ret
                 ELSE h_return("Err")
    /\ UNCHANGED <<h_in, h_eof, h_pos, h_loc, handler_env>>

\* Line 284: out.write(&initial_data).await?, one write whose returned
\* count is dropped.
H_WriteInitialData ==
    /\ h_ret = "none"
    /\ h_pc = "write_initial_data"
    /\ \E n \in WriteCounts(Len(h_loc.initial_data)) :
        h_log' = Append(h_log, OutboundWrite(h_loc.initial_data, n))
    /\ h_pc' = "write_reply"
    /\ UNCHANGED <<h_in, h_eof, h_pos, h_loc, h_ret, handler_env>>

\* Mutant: the operation reply in the layout of write_reply (mod.rs:292-305).
H_WriteReply_shifted ==
    /\ h_ret = "none"
    /\ h_pc = "write_reply"
    /\ h_log' = h_log \o
            <<InboundWrite(<<SOCKS_VER_6, SOCKS_REP_SUCCEEDED, SOCKS_PADDING,
                             SOCKS_ATYP_IPV4, 0, 0, 0, 0, 0, 0, 0, 0>>),
              InboundFlush>>
    /\ h_pc' = "copy"
    /\ UNCHANGED <<h_in, h_eof, h_pos, h_loc, h_ret, handler_env>>

\* Lines 286-302: the operation reply, then flush.
H_WriteReply ==
    /\ h_ret = "none"
    /\ h_pc = "write_reply"
    /\ h_log' = h_log \o
            <<InboundWrite(<<SOCKS_VER_6, SOCKS_REP_SUCCEEDED, 0, 0, SOCKS_PADDING,
                             SOCKS_ATYP_IPV4, 0, 0, 0, 0, 0, 0>>),
              InboundFlush>>
    /\ h_pc' = "copy"
    /\ UNCHANGED <<h_in, h_eof, h_pos, h_loc, h_ret, handler_env>>

\* Line 304: copy_bidirectional forwards what the peer sends next to out,
\* writing until out has taken all of it ...
H_CopyForward ==
    /\ h_ret = "none"
    /\ h_pc = "copy"
    /\ h_pos < Len(h_in)
    /\ LET bytes == SubSeq(h_in, h_pos + 1, Len(h_in))
       IN  h_log' = Append(h_log, OutboundWrite(bytes, Len(bytes)))
    /\ h_pos' = Len(h_in)
    /\ UNCHANGED <<h_in, h_eof, h_pc, h_loc, h_ret, handler_env>>

\* ... and returns once the peer has closed (lines 304-306).
H_CopyDone ==
    /\ h_ret = "none"
    /\ h_pc = "copy"
    /\ h_pos = Len(h_in)
    /\ h_eof
    /\ h_return("Ok")
    /\ UNCHANGED <<h_in, h_eof, h_pos, h_loc, h_log, handler_env>>

(***************************************************************************)
(* What inbound peers send: requests for each address type with several    *)
(* options blocks, initial data and payload, every prefix of such a        *)
(* request (a peer that stops early), and openings of other protocols.     *)
(***************************************************************************)
AuthMethodAdvertisement(initial_data_length, methods) ==
    [kind |-> SOCKS_OKIND_AUTH_METH_ADV,
     data |-> to_be_bytes(initial_data_length) \o methods]

OptionsBlocks(n) ==
    {as_socks_bytes(AuthMethodAdvertisement(n, <<>>)),
     as_socks_bytes(AuthMethodAdvertisement(n, <<SOCKS_AUTH_USERNAME_PASSWORD>>)),
     as_socks_bytes([kind |-> 4660, data |-> <<0, 0>>])
        \o as_socks_bytes(AuthMethodAdvertisement(n, <<>>)),
     <<18, 52, 0, 4>>,
     <<>>}

InitialData(n) == SubSeq(<<11, 12, 13, 14, 15, 16>>, 1, n)

Prefixes(bytes) == {SubSeq(bytes, 1, n) : n \in 0..Len(bytes)}

InboundRequests ==
    {<<SOCKS_VER_6, SOCKS_CMD_CONNECT>> \o address_as_socks_bytes(a)
        \o <<SOCKS_PADDING>> \o to_be_bytes(Len(block)) \o block
        \o InitialData(n) \o payload :
        a \in Addresses \cup {[DomainExample EXCEPT !.host = <<97, 255>>]},
        n \in 0..MaxInitialData,
        block \in UNION {OptionsBlocks(m) : m \in 0..MaxInitialData},
        payload \in {<<>>, <<21>>}}

\* A request whose initial data is larger than the room of a socket,
\* followed by a byte of payload.
LargeInboundRequest ==
    LET block == as_socks_bytes(AuthMethodAdvertisement(SocketSendRoom + 1, <<>>))
    IN  <<SOCKS_VER_6, SOCKS_CMD_CONNECT>> \o address_as_socks_bytes(IPv4Example)
            \o <<SOCKS_PADDING>> \o to_be_bytes(Len(block)) \o block
            \o filled(11, SocketSendRoom + 1) \o <<21>>

InboundStreams ==
    UNION {Prefixes(r) : r \in InboundRequests}
    \cup {LargeInboundRequest}
    \cup {<<4>>, <<4, 1>>, <<4, 1, 0, 80, 10, 0, 0, 1, 0>>, <<5, 1, 0>>, <<5>>,
          <<SOCKS_VER_6, 2, 1>>, <<SOCKS_VER_6, 3, 1, 10, 0, 0, 1, 0, 80>>,
          <<SOCKS_VER_6, 0, 1>>, <<SOCKS_VER_6, SOCKS_CMD_CONNECT, 9>>}

HandlerInit ==
    /\ h_in \in InboundStreams
    /\ h_eof \in BOOLEAN
    /\ h_pos = 0
    /\ h_pc = "read_request"
    /\ h_loc = HandlerLocals
    /\ h_log = <<>>
    /\ h_ret = "none"

\* No connection is being handled.
HandlerIdle ==
    /\ h_in = <<>>
    /\ h_eof = FALSE
    /\ h_pos = 0
    /\ h_pc = "done"
    /\ h_loc = HandlerLocals
    /\ h_log = <<>>
    /\ h_ret = "none"

HandlerNext ==
    \/ H_ReadRequest
    \/ H_WriteVersion
    \/ H_ReadIp
    \/ H_ReadDomainLength
    \/ H_ReadDomain
    \/ H_ReadPort
    \/ H_ReadOptionsLength
    \/ H_ReadOptions
    \/ H_ReadInitialData
    \/ H_ReadEof
    \/ H_WriteAuthReply
    \/ H_Connect
    \/ H_WriteInitialData
    \/ H_WriteReply
    \/ H_CopyForward
    \/ H_CopyDone

(***************************************************************************)
(* Socks6Client::connect (src/src/socks6.rs:67-192), one action per await  *)
(* point.  The proxy's answer is a byte string chosen beforehand; reading  *)
(* and writing are as in handle_request.                                   *)
(***************************************************************************)
None == [some |-> FALSE]
Some(v) == [some |-> TRUE, value |-> v]

ClientLocals ==
    [request |-> <<>>, initial_data |-> <<>>, options_length |-> 0,
     bnd_port |-> 0, atyp |-> 0, length |-> 0, binding |-> None]

ProxyConnect(ok) == [ev |-> "connect", ok |-> ok]
\* A write hands the stream a buffer, kept as stored; the stream takes n of its bytes.
ProxyWrite(buf, n) == [ev |-> "write", bytes |-> buf, n |-> n]

ProxyRead(what, n) == [ev |-> "read", what |-> what, n |-> n]

\* Lines 78-107: the options and the request connect() prepares.
connect_request(credentials, dst_addr, initial_data_len, options) ==
    LET auth_option_data ==
            to_be_bytes(as_u16(initial_data_len))
                \o (IF credentials.some THEN <<SOCKS_AUTH_USERNAME_PASSWORD>> ELSE <<>>)
        auth_meth_adv_option ==
            [kind |-> SOCKS_OKIND_AUTH_METH_ADV, data |-> auth_option_data]
        all_options ==
            IF options.some THEN Append(options.value, auth_meth_adv_option)
                            ELSE <<auth_meth_adv_option>>
        options_bytes ==
            flatten([i \in 1..Len(all_options) |-> as_socks_bytes(all_options[i])])
    IN  <<SOCKS_VER_6, SOCKS_CMD_CONNECT>>
            \o address_as_socks_bytes(dst_addr)
            \o <<SOCKS_PADDING>>
            \o to_be_bytes(as_u16(Len(options_bytes)))
            \o options_bytes

\* Lines 73-76: the ensure! conditions on the credentials.
credentials_ensured(credentials) ==
    credentials.some =>
        /\ credentials.value.username > 255
        /\ credentials.value.password > 255

k_want ==
    CASE k_pc = "read_version" -> 1
      [] k_pc = "read_status" -> 3
      [] k_pc = "read_auth_options" -> k_loc.options_length
      [] k_pc = "read_operation_reply" -> 6
      [] k_pc = "read_bnd_ipv4" -> 4
      [] k_pc = "read_bnd_ipv6" -> 16
      [] k_pc = "read_bnd_length" -> 1
      [] k_pc = "read_bnd_domain" -> k_loc.length
      [] k_pc = "read_options_length" -> 2
      [] k_pc = "read_reply_options" -> k_loc.options_length
      [] OTHER -> 0

k_reading == k_pc \in {"read_version", "read_status", "read_auth_options",
                       "read_operation_reply", "read_bnd_ipv4", "read_bnd_ipv6",
                       "read_bnd_length", "read_bnd_domain", "read_options_length",
                       "read_reply_options"}

k_read_exact(pc) ==
    /\ k_ret = "none"
    /\ k_pc = pc
    /\ Len(k_proxy) - k_pos >= k_want
    /\ k_pos' = k_pos + k_want
    /\ k_log' = Append(k_log, ProxyRead(pc, k_want))

k_buffer == SubSeq(k_proxy, k_pos + 1, k_pos + k_want)

k_return(res) ==
    /\ k_ret' = res
    /\ k_pc' = "done"

\* Lines 73-107: the credentials check and the preparation of the request.
K_Prepare ==
    /\ k_ret = "none"
    /\ k_pc = "start"
    /\ IF credentials_ensured(k_self.credentials)
       THEN /\ k_loc' = [k_loc EXCEPT
                           !.request = store(connect_request(
                                           k_self.credentials, k_args.dst_addr,
                                           stored_len(k_args.initial_data),
                                           k_args.options)),
                           !.initial_data = k_args.initial_data]
            /\ k_pc' = "connect"
            /\ UNCHANGED k_ret
       ELSE /\ k_return("Err")
            /\ UNCHANGED k_loc
    /\ UNCHANGED <<k_self, k_args, k_proxy, k_peof, k_pos, k_log, client_env>>

\* Line 110: TcpStream::connect(&self.proxy_addr).
K_Connect ==
    /\ k_ret = "none"
    /\ k_pc = "connect"
    /\ \E ok \in BOOLEAN :
        /\ k_log' = Append(k_log, ProxyConnect(ok))
        /\ IF ok THEN k_pc' = "write_request" /\ UNCHANGED k_ret
                 ELSE k_return("Err")
    /\ UNCHANGED <<k_self, k_args, k_proxy, k_peof, k_pos, k_loc, client_env>>

\* Lines 111-112: stream.write(&request); the initial data follows if any.
K_WriteRequest ==
    /\ k_ret = "none"
    /\ k_pc = "write_request"
    /\ \E n \in WriteCounts(stored_len(k_loc.request)) :
        k_log' = Append(k_log, ProxyWrite(k_loc.request, n))
    /\ k_pc' = IF k_loc.initial_data # <<>> THEN "write_initial_data"
                                            ELSE "read_version"
    /\ UNCHANGED <<k_self, k_args, k_proxy, k_peof, k_pos, k_loc, k_ret, client_env>>

\* Line 113: stream.write(&initial_data).
K_WriteInitialData ==
    /\ k_ret = "none"
    /\ k_pc = "write_initial_data"
    /\ \E n \in WriteCounts(stored_len(k_loc.initial_data)) :
        k_log' = Append(k_log, ProxyWrite(k_loc.initial_data, n))
    /\ k_pc' = "read_version"
    /\ UNCHANGED <<k_self, k_args, k_proxy, k_peof, k_pos, k_loc, k_ret, client_env>>

\* Lines 119-127: the version byte of the authentication reply.
K_ReadVersion ==
    /\ k_read_exact("read_version")
    /\ IF k_buffer[1] = SOCKS_VER_6
       THEN k_pc' = "read_status" /\ UNCHANGED k_ret
       ELSE k_return("Err")
    /\ UNCHANGED <<k_self, k_args, k_proxy, k_peof, k_loc, client_env>>

\* Lines 129-139: the status and the options length of the authentication reply.
K_ReadStatus ==
    /\ k_read_exact("read_status")
    /\ IF k_buffer[1] = SOCKS_AUTH_SUCCESS
       THEN /\ k_loc' = [k_loc EXCEPT !.options_length =
                                        from_be_bytes(k_buffer[2], k_buffer[3])]
            /\ k_pc' = "read_auth_options"
            /\ UNCHANGED k_ret
       ELSE /\ k_return("Err")
            /\ UNCHANGED k_loc
    /\ UNCHANGED <<k_self, k_args, k_proxy, k_peof, client_env>>

\* Mutant: goes on to the operation reply without reading the options the
\* authentication reply announced.
K_ReadAuthOptions_skip ==
    /\ k_ret = "none"
    /\ k_pc = "read_auth_options"
    /\ k_log' = Append(k_log, ProxyRead("read_auth_options", 0))
    /\ k_pc' = "read_operation_reply"
    /\ UNCHANGED <<k_self, k_args, k_proxy, k_peof, k_pos, k_loc, k_ret, client_env>>

\* Lines 140-141: the options of the authentication reply.
K_ReadAuthOptions ==
    /\ k_read_exact("read_auth_options")
    /\ k_pc' = "read_operation_reply"
    /\ UNCHANGED <<k_self, k_args, k_proxy, k_peof, k_loc, k_ret, client_env>>

\* Lines 146-182: the head of the operation reply, the reply code and the
\* dispatch on the address type.
K_ReadOperationReply ==
    /\ k_read_exact("read_operation_reply")
    /\ LET operation_reply == k_buffer
           reply_code == operation_reply[2]
           atyp == operation_reply[6]
       IN  /\ k_loc' = [k_loc EXCEPT
                          !.bnd_port = from_be_bytes(operation_reply[3], operation_reply[4]),
                          !.atyp = atyp]
           /\ IF reply_code # SOCKS_REP_SUCCEEDED
              THEN k_return("Err")
              ELSE IF atyp = SOCKS_ATYP_IPV4
              THEN k_pc' = "read_bnd_ipv4" /\ UNCHANGED k_ret
              ELSE IF atyp = SOCKS_ATYP_IPV6
              THEN k_pc' = "read_bnd_ipv6" /\ UNCHANGED k_ret
              ELSE IF atyp = SOCKS_ATYP_DOMAINNAME
              THEN k_pc' = "read_bnd_length" /\ UNCHANGED k_ret
              ELSE k_return("Panic")       \* unreachable!()
    /\ UNCHANGED <<k_self, k_args, k_proxy, k_peof, client_env>>

\* Lines 160-171: a 4-byte or 16-byte binding address.
K_ReadBndIp ==
    /\ \/ k_read_exact("read_bnd_ipv4")
       \/ k_read_exact("read_bnd_ipv6")
    /\ k_loc' = [k_loc EXCEPT !.binding =
                    Some([atyp |-> k_loc.atyp, host |-> k_buffer, port |-> k_loc.bnd_port])]
    /\ k_pc' = "read_options_length"
    /\ UNCHANGED <<k_self, k_args, k_proxy, k_peof, k_ret, client_env>>

\* Lines 173-174: the length of a domain name.
K_ReadBndLength ==
    /\ k_read_exact("read_bnd_length")
    /\ k_loc' = [k_loc EXCEPT !.length = k_buffer[1]]
    /\ k_pc' = "read_bnd_domain"
    /\ UNCHANGED <<k_self, k_args, k_proxy, k_peof, k_ret, client_env>>

\* Lines 176-179: the domain name, which must be UTF-8.
K_ReadBndDomain ==
    /\ k_read_exact("read_bnd_domain")
    /\ IF from_utf8_ok(k_buffer)
       THEN /\ k_loc' = [k_loc EXCEPT !.binding =
                            Some([atyp |-> k_loc.atyp, host |-> k_buffer,
                                  port |-> k_loc.bnd_port])]
            /\ k_pc' = "read_options_length"
            /\ UNCHANGED k_ret
       ELSE /\ k_return("Err")
            /\ UNCHANGED k_loc
    /\ UNCHANGED <<k_self, k_args, k_proxy, k_peof, client_env>>

\* Lines 184-187: the options length of the operation reply.
K_ReadOptionsLength ==
    /\ k_read_exact("read_options_length")
    /\ k_loc' = [k_loc EXCEPT !.options_length = from_be_bytes(k_buffer[1], k_buffer[2])]
    /\ k_pc' = "read_reply_options"
    /\ UNCHANGED <<k_self, k_args, k_proxy, k_peof, k_ret, client_env>>

\* Lines 188-191: the options of the operation reply; Ok((stream, binding)).
K_ReadReplyOptions ==
    /\ k_read_exact("read_reply_options")
    /\ k_return("Ok")
    /\ UNCHANGED <<k_self, k_args, k_proxy, k_peof, k_loc, client_env>>

\* Any read_exact: the proxy closed before sending the bytes asked for.
K_ReadEof ==
    /\ k_ret = "none"
    /\ k_reading
    /\ Len(k_proxy) - k_pos < k_want
    /\ k_peof
    /\ k_return("Err")
    /\ UNCHANGED <<k_self, k_args, k_proxy, k_peof, k_pos, k_loc, k_log, client_env>>

(***************************************************************************)
(* Clients, calls and proxies.  Credentials are kept by the lengths of the *)
(* username and the password, which is all connect() looks at.             *)
(***************************************************************************)
Credentials(username_len, password_len) ==
    Some([username |-> username_len, password |-> password_len])

ClientCredentials ==
    {None, Credentials(1, 1), Credentials(255, 255), Credentials(0, 1),
     Credentials(256, 1), Credentials(1, 256), Credentials(256, 256)}

ClientInitialData ==
    {store(InitialData(n)) : n \in 0..MaxInitialData}
    \cup {stored_filled(7, 65536 + 1)}

ClientOptions ==
    {None, Some(<<>>), Some(<<[kind |-> 4660, data |-> <<0, 0>>]>>)}

ClientCalls ==
    {[self |-> [credentials |-> cr],
      args |-> [dst_addr |-> IPv4Example, initial_data |-> store(InitialData(n)),
                options |-> None]] :
        cr \in ClientCredentials, n \in {0, 1}}
    \cup {[self |-> [credentials |-> None],
           args |-> [dst_addr |-> a, initial_data |-> d, options |-> os]] :
            a \in {IPv4Example, DomainExample},
            d \in ClientInitialData, os \in ClientOptions}

AuthReplies ==
    {<<6, 0, 0, 0>>,
     <<6, 0, 0, 8>> \o as_socks_bytes([kind |-> SOCKS_OKIND_AUTH_METH_SEL, data |-> <<0>>]),
     <<6, 1, 0, 0>>,
     <<5, 0, 0, 0>>}

OperationReplies ==
    {<<6, 0, 0, 0, 0, 1, 0, 0, 0, 0, 0, 0>>,
     <<6, 0, 4, 56, 0, 1, 10, 0, 0, 1, 0, 8>>
        \o as_socks_bytes([kind |-> 4660, data |-> <<7>>]),
     <<6, 0, 0, 80, 0, 3, 2, 97, 98, 0, 0>>,
     <<6, 0, 0, 80, 0, 3, 2, 97, 255, 0, 0>>,
     <<6, 0, 0, 80, 0, 4>> \o zeros(15) \o <<1, 0, 0>>,
     <<6, 5, 0, 0, 0, 1, 0, 0, 0, 0, 0, 0>>,
     <<6, 0, 0, 1, 0, 0, 0, 0, 0, 0, 0, 0>>,
     <<6, 0, 0, 0, 0, 9, 0, 0, 0, 0, 0, 0>>}

\* Every pair of replies in full, and two of them cut short at every byte.
ProxyStreams ==
    {a \o o : a \in AuthReplies, o \in OperationReplies}
    \cup Prefixes(<<6, 0, 0, 8>>
                    \o as_socks_bytes([kind |-> SOCKS_OKIND_AUTH_METH_SEL, data |-> <<0>>])
                    \o <<6, 0, 4, 56, 0, 1, 10, 0, 0, 1, 0, 8>>
                    \o as_socks_bytes([kind |-> 4660, data |-> <<7>>]))
    \cup Prefixes(<<6, 0, 0, 0>> \o <<6, 0, 0, 80, 0, 3, 2, 97, 98, 0, 0>>)

ClientInit ==
    /\ \E call \in ClientCalls :
        /\ k_self = call.self
        /\ k_args = call.args
    /\ k_proxy \in ProxyStreams
    /\ k_peof \in BOOLEAN
    /\ k_pos = 0
    /\ k_pc = "start"
    /\ k_loc = ClientLocals
    /\ k_log = <<>>
    /\ k_ret = "none"

\* No connect() is running.
ClientIdle ==
    /\ k_self = [credentials |-> None]
    /\ k_args = [dst_addr |-> IPv4Example, initial_data |-> <<>>, options |-> None]
    /\ k_proxy = <<>>
    /\ k_peof = FALSE
    /\ k_pos = 0
    /\ k_pc = "done"
    /\ k_loc = ClientLocals
    /\ k_log = <<>>
    /\ k_ret = "none"

ClientNext ==
    \/ K_Prepare
    \/ K_Connect
    \/ K_WriteRequest
    \/ K_WriteInitialData
    \/ K_ReadVersion
    \/ K_ReadStatus
    \/ K_ReadAuthOptions
    \/ K_ReadOperationReply
    \/ K_ReadBndIp
    \/ K_ReadBndLength
    \/ K_ReadBndDomain
    \/ K_ReadOptionsLength
    \/ K_ReadReplyOptions
    \/ K_ReadEof

(***************************************************************************)
(* A client and a handler on one connection: what connect() writes is what *)
(* handle_request reads (src/src/socks6.rs:111-113 and 214-275), what      *)
(* handle_request writes is what connect() reads (lines 278-301 and        *)
(* 119-189).  The bytes travel in order and arrive some time after they    *)
(* were written; a side that returns an error drops its end.               *)
(***************************************************************************)
\* The bytes the stream took from the writes of connect(), in order.
RECURSIVE client_sent(_)
client_sent(log) ==
    IF log = <<>> THEN <<>>
    ELSE LET e == log[Len(log)]
         IN  client_sent(SubSeq(log, 1, Len(log) - 1))
                \o (IF e.ev = "write" THEN SubSeq(load(e.bytes), 1, e.n) ELSE <<>>)

\* The bytes handle_request wrote to the inbound stream, in order.
RECURSIVE handler_sent(_)
handler_sent(log) ==
    IF log = <<>> THEN <<>>
    ELSE LET e == log[Len(log)]
         IN  handler_sent(SubSeq(log, 1, Len(log) - 1))
                \o (IF e.ev = "write" THEN e.bytes ELSE <<>>)

\* What the client wrote arrives at the handler.
ArriveAtHandler ==
    /\ h_in # client_sent(k_log)
    /\ h_in' = client_sent(k_log)
    /\ UNCHANGED <<h_eof, h_pos, h_pc, h_loc, h_log, h_ret, handler_env>>

\* What the handler wrote arrives at the client.
ArriveAtClient ==
    /\ k_proxy # handler_sent(h_log)
    /\ k_proxy' = handler_sent(h_log)
    /\ UNCHANGED <<k_self, k_args, k_peof, k_pos, k_pc, k_loc, k_log, k_ret, client_env>>

\* connect() returned: on an error the stream is dropped, on success it
\* is the caller's, who closes it in the end.  Once everything written has
\* arrived, the handler sees the end of its inbound stream.
ClientHangsUp ==
    /\ k_ret # "none"
    /\ h_in = client_sent(k_log)
    /\ ~h_eof
    /\ h_eof' = TRUE
    /\ UNCHANGED <<h_in, h_pos, h_pc, h_loc, h_log, h_ret, handler_env>>

\* handle_request returned and the inbound stream was dropped.
HandlerHangsUp ==
    /\ h_ret # "none"
    /\ k_proxy = handler_sent(h_log)
    /\ ~k_peof
    /\ k_peof' = TRUE
    /\ UNCHANGED <<k_self, k_args, k_proxy, k_pos, k_pc, k_loc, k_log, k_ret, client_env>>

\* The calls of connect() the pair runs: those whose initial data is small.
PairCalls == {call \in ClientCalls : stored_len(call.args.initial_data) <= MaxInitialData}

PairInit ==
    /\ \E call \in PairCalls :
        /\ k_self = call.self
        /\ k_args = call.args
    /\ k_proxy = <<>>
    /\ k_peof = FALSE
    /\ k_pos = 0
    /\ k_pc = "start"
    /\ k_loc = ClientLocals
    /\ k_log = <<>>
    /\ k_ret = "none"
    /\ h_in = <<>>
    /\ h_eof = FALSE
    /\ h_pos = 0
    /\ h_pc = "read_request"
    /\ h_loc = HandlerLocals
    /\ h_log = <<>>
    /\ h_ret = "none"

\* The steps of the two sides.  The client opens with version 6 and the
\* handler binds to an IPv4 address, so the version hint of the handler and
\* the domain-name binding of the client have no step here.
PairNext ==
    \/ K_Prepare
    \/ K_Connect
    \/ K_WriteRequest
    \/ K_WriteInitialData
    \/ K_ReadVersion
    \/ K_ReadStatus
    \/ K_ReadAuthOptions
    \/ K_ReadOperationReply
    \/ K_ReadBndIp
    \/ K_ReadOptionsLength
    \/ K_ReadReplyOptions
    \/ K_ReadEof
    \/ H_ReadRequest
    \/ H_ReadIp
    \/ H_ReadDomainLength
    \/ H_ReadDomain
    \/ H_ReadPort
    \/ H_ReadOptionsLength
    \/ H_ReadOptions
    \/ H_ReadInitialData
    \/ H_ReadEof
    \/ H_WriteAuthReply
    \/ H_Connect
    \/ H_WriteInitialData
    \/ H_WriteReply
    \/ H_CopyForward
    \/ H_CopyDone
    \/ ArriveAtHandler
    \/ ArriveAtClient
    \/ ClientHangsUp
    \/ HandlerHangsUp

(***************************************************************************)
(* Socks6Request::chain (src/socksx/src/socks6/mod.rs:75-105).  Metadata   *)
(* values and link strings are byte strings; the map is a function whose   *)
(* domain is the keys present.                                             *)
(***************************************************************************)
MaxChainLength == 2

\* `str::parse::<usize>()`: an optional '+', then one or more decimal digits.
RECURSIVE digits_value(_, _)
digits_value(s, acc) ==
    IF s = <<>> THEN Some(acc)
    ELSE IF Head(s) \in 48..57
         THEN digits_value(Tail(s), acc * 10 + (Head(s) - 48))
         ELSE None

parse_usize(s) ==
    LET digits == IF s # <<>> /\ Head(s) = 43 THEN Tail(s) ELSE s
    IN  IF digits = <<>> THEN None ELSE digits_value(digits, 0)

\* `ProxyAddress::try_from(String)`: `host:port`, the host possibly led by
\* `user:pass@`; the port is what follows the last colon.
ProxyAddress_try_from(s) ==
    LET colons == {i \in 1..Len(s) : s[i] = 58}
    IN  IF colons = {} THEN None
        ELSE LET at == CHOOSE i \in colons : \A j \in colons : j <= i
                 host == SubSeq(s, 1, at - 1)
                 port == parse_usize(SubSeq(s, at + 1, Len(s)))
             IN  IF host = <<>> \/ ~port.some \/ port.value > 65535
                 THEN None
                 ELSE Some([host |-> host, port |-> port.value])

\* `SocksChain::new(index, links)` and `SocksChain::default()`.
SocksChain_new(index, links) == [index |-> index, links |-> links]
SocksChain_default == SocksChain_new(0, <<>>)

\* `chain.detour(static_links)`: the static links go in at the chain's index
\* (at the end when the index is beyond it).
SocksChain_detour(chain, static_links) ==
    LET at == IF chain.index <= Len(chain.links) THEN chain.index ELSE Len(chain.links)
    IN  [chain EXCEPT !.links = SubSeq(chain.links, 1, at)
                                    \o static_links
                                    \o SubSeq(chain.links, at + 1, Len(chain.links))]

\* `self.metadata.get(&key)`.
metadata_get(metadata, key) ==
    IF key \in DOMAIN metadata THEN Some(metadata[key]) ELSE None

\* Mutant: the links are collected from the highest key down.
chain_links_descending(metadata, length) ==
    LET keys == [n \in 1..length |-> as_u16(1000 + length - n)]
        strings == [n \in 1..length |-> metadata_get(metadata, keys[n])]
        parsed == [n \in 1..length |->
                      IF strings[n].some THEN ProxyAddress_try_from(strings[n].value)
                                         ELSE None]
    IN  IF \E n \in 1..length : ~parsed[n].some
        THEN [status |-> "Panic"]
        ELSE [status |-> "Ok", links |-> <<>> \o [n \in 1..length |-> parsed[n].value]]

\* Lines 84-88: the links under the keys 1000..1000+length, in order; a
\* missing key or a string that is no proxy address makes unwrap() panic.
chain_links(metadata, length) ==
    LET keys == [n \in 1..length |-> as_u16(1000 + n - 1)]
        strings == [n \in 1..length |-> metadata_get(metadata, keys[n])]
        parsed == [n \in 1..length |->
                      IF strings[n].some THEN ProxyAddress_try_from(strings[n].value)
                                         ELSE None]
    IN  IF \E n \in 1..length : ~parsed[n].some
        THEN [status |-> "Panic"]
        ELSE [status |-> "Ok", links |-> <<>> \o [n \in 1..length |-> parsed[n].value]]

\* Lines 97-104: the detour, and None for a chain without links.
chain_finish(chain, static_links) ==
    LET detoured == IF static_links # <<>> THEN SocksChain_detour(chain, static_links)
                                           ELSE chain
    IN  IF detoured.links = <<>> THEN [status |-> "Ok", chain |-> None]
                                 ELSE [status |-> "Ok", chain |-> Some(detoured)]

\* Line 82: `self.metadata.get(&998u16).unwrap().parse()`.
chain_index(metadata) ==
    LET index == metadata_get(metadata, 998)
    IN  IF index.some THEN [status |-> "Ok", value |-> parse_usize(index.value)]
                      ELSE [status |-> "Panic"]

chain(metadata, static_links) ==
    LET length == metadata_get(metadata, 999)
    IN  IF ~length.some
        THEN chain_finish(SocksChain_default, static_links)
        ELSE LET parsed_length == parse_usize(length.value)
             IN  IF ~parsed_length.some THEN [status |-> "Err"]
                 ELSE LET index == chain_index(metadata)
                      IN  IF index.status = "Panic" THEN [status |-> "Panic"]
                          ELSE IF ~index.value.some THEN [status |-> "Err"]
                          ELSE LET links == chain_links(metadata, parsed_length.value)
                               IN  IF links.status = "Panic" THEN [status |-> "Panic"]
                                   ELSE chain_finish(
                                            SocksChain_new(index.value.value, links.links),
                                            static_links)

\* The decimal string of a small number, and the strings the keys may hold.
decimal(n) == <<48 + n>>
NotANumber == <<120>>
LinkA == <<97, 58, 49>>
LinkB == <<98, 58, 50>>
NotALink == <<98>>
StaticLink == [host |-> <<115>>, port |-> 1080]
Absent == <<0>>

ChainKeys == {998, 999} \cup {1000 + n : n \in 0..(MaxChainLength - 1)}

ChainValues(key) ==
    IF key \in {998, 999}
    THEN {Absent, NotANumber} \cup {decimal(n) : n \in 0..MaxChainLength}
    ELSE {Absent, NotALink, IF key = 1000 THEN LinkA ELSE LinkB}

Metadatas ==
    {[key \in {k \in ChainKeys : f[k] # Absent} |-> f[key]] :
        f \in {g \in [ChainKeys -> UNION {ChainValues(k) : k \in ChainKeys}] :
                \A k \in ChainKeys : g[k] \in ChainValues(k)}}

ChainInit ==
    /\ r_metadata \in Metadatas
    /\ r_static \in {<<>>, <<StaticLink>>}
    /\ r_pc = "call"
    /\ r_res = [status |-> "none"]

\* No chain() is called.
ChainIdle ==
    /\ r_metadata = <<>>
    /\ r_static = <<>>
    /\ r_pc = "ret"
    /\ r_res = [status |-> "none"]

CallChain ==
    /\ r_pc = "call"
    /\ r_res' = chain(r_metadata, r_static)
    /\ r_pc' = "ret"
    /\ UNCHANGED <<r_metadata, r_static, chain_env>>

ChainNext == CallChain

(***************************************************************************)
(* The redirector (examples/redirector.rs): main binds the listener,       *)
(* builds the client for the chosen SOCKS version and accepts in a loop,   *)
(* spawning one task per accepted connection.  The JoinHandle of           *)
(* tokio::spawn is dropped: what a task returns, or its panic, stays with  *)
(* the task.                                                               *)
(***************************************************************************)
MaxConnections == 3

\* The task tokio::spawn starts for an accepted connection: redirect_v5 or
\* redirect_v6 at its first step.
Redirect == [pc |-> "get_original_dst", ret |-> "none"]

\* main returns through `?` or unwinds: the runtime of #[tokio::main] is
\* dropped, and with it the listener and every task that has not finished.
d_return(res) ==
    /\ d_ret' = res
    /\ d_pc' = "done"
    /\ d_tasks' = <<>> \o [t \in 1..Len(d_tasks) |->
                            IF d_tasks[t].ret = "none"
                            THEN [pc |-> "done", ret |-> "Cancelled"]
                            ELSE d_tasks[t]]

\* Line 26: TcpListener::bind("127.0.0.1:42000").await?
D_Bind ==
    /\ d_ret = "none"
    /\ d_pc = "bind"
    /\ \E ok \in BOOLEAN :
        IF ok THEN d_pc' = "match_version" /\ UNCHANGED <<d_ret, d_tasks>>
              ELSE d_return("Err")
    /\ UNCHANGED <<d_version, redirector_env>>

\* Lines 28-46: match args.value_of("VERSION"); any value but "5" and "6"
\* panics.
D_MatchVersion ==
    /\ d_ret = "none"
    /\ d_pc = "match_version"
    /\ IF d_version \in {"5", "6"}
       THEN d_pc' = "client_new" /\ UNCHANGED <<d_ret, d_tasks>>
       ELSE d_return("Panic")
    /\ UNCHANGED <<d_version, redirector_env>>

\* Lines 30 and 38: Socks5Client::new / Socks6Client::new(proxy_host, None)
\* resolves the proxy address (src/src/socks6.rs:51-61) and may fail.
D_ClientNew ==
    /\ d_ret = "none"
    /\ d_pc = "client_new"
    /\ \E ok \in BOOLEAN :
        IF ok THEN d_pc' = "accept" /\ UNCHANGED <<d_ret, d_tasks>>
              ELSE d_return("Err")
    /\ UNCHANGED <<d_version, redirector_env>>

\* Lines 32-35 and 40-43: listener.accept().await? and tokio::spawn of the
\* redirect task; an error of accept itself is returned by main.
D_Accept ==
    /\ d_ret = "none"
    /\ d_pc = "accept"
    /\ \E ok \in BOOLEAN :
        IF ok
        THEN /\ Len(d_tasks) < MaxConnections
             /\ d_tasks' = Append(d_tasks, Redirect)
             /\ UNCHANGED <<d_pc, d_ret>>
        ELSE d_return("Err")
    /\ UNCHANGED <<d_version, redirector_env>>

\* Task t is at the step pc; tasks run while the runtime of main lives.
t_running(t, pc) ==
    /\ d_ret = "none"
    /\ d_tasks[t].ret = "none"
    /\ d_tasks[t].pc = pc

\* The step of task t succeeded: the task goes on to pc.
t_goto(t, pc) ==
    /\ d_tasks' = [d_tasks EXCEPT ![t].pc = pc]
    /\ UNCHANGED <<d_pc, d_ret>>

\* Mutant: main joins the task and returns its failure.
t_return_joined(t, res) ==
    /\ d_tasks' = [d_tasks EXCEPT ![t] = [pc |-> "done", ret |-> res]]
    /\ IF res = "Ok" THEN UNCHANGED <<d_pc, d_ret>>
                     ELSE d_ret' = res /\ d_pc' = "done"

\* Task t returns res (`?` at lines 59-62 and 76-80, Ok(()) at 64 and 82) or
\* unwinds; its JoinHandle was dropped at lines 34 and 42, nothing waits for
\* the outcome.
t_return(t, res) ==
    /\ d_tasks' = [d_tasks EXCEPT ![t] = [pc |-> "done", ret |-> res]]
    /\ UNCHANGED <<d_pc, d_ret>>

\* Lines 59 and 76: socksx::get_original_dst(&incoming)?
T_GetOriginalDst(t) ==
    /\ t_running(t, "get_original_dst")
    /\ \E ok \in BOOLEAN :
        IF ok THEN t_goto(t, IF d_version = "6" THEN "try_read_initial_data"
                                                ELSE "connect")
              ELSE t_return(t, "Err")
    /\ UNCHANGED <<d_version, redirector_env>>

\* Line 77 (redirect_v6 only): socksx::try_read_initial_data(&mut incoming).await?
T_TryReadInitialData(t) ==
    /\ t_running(t, "try_read_initial_data")
    /\ \E ok \in BOOLEAN :
        IF ok THEN t_goto(t, "connect") ELSE t_return(t, "Err")
    /\ UNCHANGED <<d_version, redirector_env>>

\* What client.connect comes to: Socks6Client::connect returns the stream or
\* an error, or panics (src/src/socks6.rs:67-192); Socks5Client::connect
\* returns a Result.
ConnectResults == IF d_version = "6" THEN {"Ok", "Err", "Panic"} ELSE {"Ok", "Err"}

\* Lines 60 and 78: client.connect(dst_addr, ...).await?
T_Connect(t) ==
    /\ t_running(t, "connect")
    /\ \E res \in ConnectResults :
        IF res = "Ok" THEN t_goto(t, "bidirectional_copy") ELSE t_return(t, res)
    /\ UNCHANGED <<d_version, redirector_env>>

\* Lines 62-64 and 80-82: socksx::bidirectional_copy(...).await?; Ok(())
T_BidirectionalCopy(t) ==
    /\ t_running(t, "bidirectional_copy")
    /\ \E res \in {"Ok", "Err"} : t_return(t, res)
    /\ UNCHANGED <<d_version, redirector_env>>

\* The values VERSION takes: the two supported ones and another.
Versions == {"5", "6", "4"}

RedirectorInit ==
    /\ d_version \in Versions
    /\ d_pc = "bind"
    /\ d_ret = "none"
    /\ d_tasks = <<>>

\* No redirector runs.
RedirectorIdle ==
    /\ d_version = "5"
    /\ d_pc = "done"
    /\ d_ret = "none"
    /\ d_tasks = <<>>

RedirectorNext ==
    \/ D_Bind
    \/ D_MatchVersion
    \/ D_ClientNew
    \/ D_Accept
    \/ \E t \in 1..Len(d_tasks) : T_GetOriginalDst(t)
    \/ \E t \in 1..Len(d_tasks) : T_TryReadInitialData(t)
    \/ \E t \in 1..Len(d_tasks) : T_Connect(t)
    \/ \E t \in 1..Len(d_tasks) : T_BidirectionalCopy(t)

(***************************************************************************)
(* Specifications: the codec operations on their inputs, one inbound       *)
(* connection handled by handle_request, one call of connect(), one call   *)
(* of chain(), one run of the redirector.                                  *)
(***************************************************************************)
Init ==
    /\ build \in Builds
    /\ CodecInit
    /\ HandlerIdle
    /\ ClientIdle
    /\ ChainIdle
    /\ RedirectorIdle

Spec == Init /\ [][CodecNext]_vars

HandlerSpecInit ==
    /\ build = "release"
    /\ CodecIdle
    /\ HandlerInit
    /\ ClientIdle
    /\ ChainIdle
    /\ RedirectorIdle

HandlerSpec == HandlerSpecInit /\ [][HandlerNext]_vars

ClientSpecInit ==
    /\ build = "release"
    /\ CodecIdle
    /\ HandlerIdle
    /\ ClientInit
    /\ ChainIdle
    /\ RedirectorIdle

ClientSpec == ClientSpecInit /\ [][ClientNext]_vars

ChainSpecInit ==
    /\ build = "release"
    /\ CodecIdle
    /\ HandlerIdle
    /\ ClientIdle
    /\ ChainInit
    /\ RedirectorIdle

ChainSpec == ChainSpecInit /\ [][ChainNext]_vars

PairSpecInit ==
    /\ build = "release"
    /\ CodecIdle
    /\ PairInit
    /\ ChainIdle
    /\ RedirectorIdle

PairSpec == PairSpecInit /\ [][PairNext]_vars

RedirectorSpecInit ==
    /\ build = "release"
    /\ CodecIdle
    /\ HandlerIdle
    /\ ClientIdle
    /\ ChainIdle
    /\ RedirectorInit

RedirectorSpec == RedirectorSpecInit /\ [][RedirectorNext]_vars

(***************************************************************************)
(* Claims about the codec.                                                 *)
(***************************************************************************)
Returned(op) == cpc = "ret" /\ cin.op = op

\* The encodings of a request's options, one after the other in list order.
RECURSIVE EncodedFrom(_, _)
EncodedFrom(options, i) ==
    IF i > Len(options) THEN <<>>
    ELSE as_socks_bytes(options[i]) \o EncodedFrom(options, i + 1)

\* The layout C1 describes, for the frame returned for the current request.
FrameLayout ==
    LET request == arg_request
        frame == ret_bytes
        address == address_as_socks_bytes(request.destination)
        n == Len(address)
        encoded == EncodedFrom(request.options, 1)
    IN  /\ Len(frame) = n + 5 + Len(encoded)
        /\ frame[1] = 6
        /\ frame[2] = 1
        /\ SubSeq(frame, 3, n + 2) = address
        /\ frame[n + 3] = 0
        /\ from_be_bytes(frame[n + 4], frame[n + 5]) = Len(frame) - (n + 5)
        /\ SubSeq(frame, n + 6, Len(frame)) = encoded
        /\ (request.destination = IPv4Example /\ request.options = <<>>
                => frame = <<6, 1, 1, 192, 168, 1, 1, 0, 80, 0, 0, 0>>)

\* C1 (as claimed): for every CONNECT request into_socks_bytes returns
\* [6, 1] ++ address ++ [0] ++ big-endian L ++ the options' encodings in list
\* order, where L is the number of option bytes that follow.
C1_EveryRequestFramed ==
    (Returned("into_socks_bytes") /\ cin.request.command = Connect) => FrameLayout

\* C1 (amended): the same layout, for every CONNECT request whose encoded
\* options take at most 65535 bytes, the most the 2-byte length L can count.
C1_FramedWhenLengthFits ==
    (/\ Returned("into_socks_bytes")
     /\ cin.request.command = Connect
     /\ Len(flatten([i \in 1..Len(cin.request.options) |->
                        as_socks_bytes(arg_request.options[i])])) <= 65535) => FrameLayout

\* C1 witness: a CONNECT request with two different options was framed.
C1_Witness ==
    /\ Returned("into_socks_bytes")
    /\ cin.request.command = Connect
    /\ Len(arg_request.options) = 2
    /\ arg_request.options[1] # arg_request.options[2]
    /\ Len(ret_bytes) > 12

\* C2 (as claimed): for data of at most 2^16-8 bytes the encoded option's
\* length is a multiple of 4, its length field (bytes 2..4) is that length,
\* and every byte after the data is zero.
C2_LengthFieldIsPaddedLength ==
    Returned("as_socks_bytes") =>
        LET data == arg_option.data
            bytes == ret_bytes
        IN  Len(data) <= 65536 - 8 =>
                /\ Len(bytes) % 4 = 0
                /\ from_be_bytes(bytes[3], bytes[4]) = Len(bytes)
                /\ \A i \in (4 + Len(data) + 1)..Len(bytes) : bytes[i] = 0

\* C3 (as claimed): the encoded length is ceil((4 + data.len)/4) * 4; data
\* whose length plus 4 is a multiple of 4 gets no padding; 3 data bytes
\* encode to 8 bytes.
C3_MinimalPadding ==
    Returned("as_socks_bytes") =>
        LET n == Len(arg_option.data)
            total == Len(ret_bytes)
        IN  /\ total = ((4 + n + 3) \div 4) * 4
            /\ ((4 + n) % 4 = 0 => total = 4 + n)
            /\ (n = 3 => total = 8)

\* The length fields of the options read_options returned, summed.
RECURSIVE SumOfLengthFields(_)
SumOfLengthFields(options) ==
    IF options = <<>> THEN 0
    ELSE Len(Head(options).data) + 4 + SumOfLengthFields(Tail(options))

\* C8 (as claimed): read_options succeeds only when the length fields of the
\* options read sum to the declared block length; when the counter steps
\* past the declared length, or the first option's length field is below 4,
\* it returns a MalformedOptions error.
C8_BlockLengthConsistent ==
    (Returned("read_options") /\ Len(arg_stream) >= 6) =>
        LET stream == arg_stream
            options_length == from_be_bytes(stream[1], stream[2])
            first_length == from_be_bytes(stream[5], stream[6])
        IN  /\ cres.status = "Ok" =>
                    SumOfLengthFields(ret_options) = options_length
            /\ cres.options_bytes_read > options_length =>
                    cres.status = "Malformed"
            /\ (options_length > 0 /\ first_length < 4) =>
                    cres.status = "Malformed"

\* C9 (as claimed): decoding the encoding of an option with at most 2^16-8
\* data bytes yields that option: the same kind and the same data bytes.
C9_OptionRoundTrip ==
    (Returned("read_options") /\ cin.echo) =>
        LET option == arg_origin
            decoded == ret_options
        IN  Len(option.data) <= 65536 - 8 =>
                /\ cres.status = "Ok"
                /\ Len(decoded) = 1
                /\ decoded[1].kind = option.kind
                /\ decoded[1].data = option.data

(***************************************************************************)
(* Claims about handle_request.                                            *)
(***************************************************************************)
h_events(kind) == SelectSeq(h_log, LAMBDA e : e.ev = kind)

\* What C4 says a version mismatch ends in: the one-byte hint 0x06 is all
\* that was written, nothing was dialled, and handle_request returned Ok.
VersionHintOnly ==
    /\ h_ret = "Ok"
    /\ h_log = <<InboundWrite(<<6>>)>>
    /\ h_events("connect") = <<>>

C5_UnsupportedCommandReply ==
    (/\ h_ret # "none"
     /\ Len(h_loc.request) = 3
     /\ h_loc.request[1] = 6
     /\ h_loc.request[2] # 1) =>
        /\ h_ret = "Err"
        /\ \E i \in 1..Len(h_log) :
                /\ h_log[i].ev = "write"
                /\ Len(h_log[i].bytes) >= 2
                /\ h_log[i].bytes[1] = 6
                /\ h_log[i].bytes[2] = 7
        /\ h_events("connect") = <<>>

(***************************************************************************)
(* Claims about Socks6Client::connect.                                     *)
(***************************************************************************)
k_events(kind) == SelectSeq(k_log, LAMBDA e : e.ev = kind)

\* connect() came past its credentials check: it went on to dial the proxy.
k_accepted == k_pc # "start" /\ ~(k_ret = "Err" /\ k_log = <<>>)

\* C6 (as claimed): a client with credentials is accepted exactly when the
\* username and the password are both 1..=255 bytes long; then connect goes
\* on to dial the proxy, and otherwise it is rejected before any byte is sent.
C6_CredentialsAcceptedIffInRange ==
    (k_self.credentials.some /\ k_pc # "start") =>
        LET username_len == k_self.credentials.value.username
            password_len == k_self.credentials.value.password
        IN  (username_len \in 1..255 /\ password_len \in 1..255) <=> k_accepted

\* The bytes read from the proxy before the i-th event of the log.
RECURSIVE k_read_before(_)
k_read_before(i) ==
    IF i <= 1 THEN 0
    ELSE k_read_before(i - 1)
            + (IF k_log[i - 1].ev = "read" THEN k_log[i - 1].n ELSE 0)

\* C7: on the proxy stream every write comes before every read; the first
\* write is the framed request alone, a second write happens only for
\* non-empty initial data and hands over exactly that data, and by the first
\* read the initial data has had its write; the operation reply is read only
\* after the four bytes of the authentication reply and all the option bytes
\* it announced.
C7_ProxyStreamOrder ==
    LET writes == k_events("write")
        reads == k_events("read")
        initial_data == k_args.initial_data
    IN  /\ \A i, j \in 1..Len(k_log) :
            (k_log[i].ev = "write" /\ k_log[j].ev = "read") => i < j
        /\ \A i \in 1..Len(k_log) :
            k_log[i].ev \in {"write", "read"} => k_log[1] = ProxyConnect(TRUE)
        /\ Len(writes) <= 2
        /\ Len(writes) >= 1 =>
            load(writes[1].bytes) = connect_request(k_self.credentials, k_args.dst_addr,
                                                    stored_len(initial_data),
                                                    k_args.options)
        /\ Len(writes) = 2 =>
            /\ initial_data # <<>>
            /\ writes[2].bytes = initial_data
        /\ reads # <<>> => Len(writes) = (IF initial_data # <<>> THEN 2 ELSE 1)
        /\ \A i \in 1..Len(k_log) :
            (k_log[i].ev = "read" /\ k_log[i].what = "read_operation_reply") =>
                /\ k_read_before(i) = 4 + from_be_bytes(k_proxy[3], k_proxy[4])
                /\ k_log[i - 1] =
                    ProxyRead("read_auth_options", from_be_bytes(k_proxy[3], k_proxy[4]))

\* C7 witness: a call with initial data got through both replies, the
\* authentication reply carrying options.
C7_Witness ==
    /\ k_ret = "Ok"
    /\ Len(k_events("write")) = 2
    /\ from_be_bytes(k_proxy[3], k_proxy[4]) > 0
    /\ \E i \in 1..Len(k_log) :
        k_log[i].ev = "read" /\ k_log[i].what = "read_operation_reply"

(***************************************************************************)
(* Claims about Socks6Request::chain.                                      *)
(***************************************************************************)
\* Key 999 is there and the chain the metadata describes is malformed: key
\* 999 or key 998 holds no number, key 998 is missing, or one of the keys
\* 1000..1000+length is missing or holds no proxy address.
ChainMalformed ==
    /\ 999 \in DOMAIN r_metadata
    /\ LET length == parse_usize(r_metadata[999])
       IN  \/ ~length.some
           \/ 998 \notin DOMAIN r_metadata
           \/ ~parse_usize(r_metadata[998]).some
           \/ \E n \in 1..length.value :
                \/ (1000 + n - 1) \notin DOMAIN r_metadata
                \/ ~ProxyAddress_try_from(r_metadata[1000 + n - 1]).some

\* C10 (as claimed): called on malformed chain metadata, chain() returns an
\* error value and does not crash.
C10_MalformedChainIsError ==
    (r_pc = "ret" /\ ChainMalformed) => r_res.status = "Err"

\* C11 (as claimed): a chain that chain() returns for an empty static list
\* has its index within its links, 0 <= index <= links.length.
C11_IndexWithinLinks ==
    (/\ r_pc = "ret"
     /\ r_static = <<>>
     /\ r_res.status = "Ok"
     /\ r_res.chain.some) =>
        /\ 0 <= r_res.chain.value.index
        /\ r_res.chain.value.index <= Len(r_res.chain.value.links)

\* The chain the metadata describes: the number under key 998 and the proxy
\* addresses under the keys 1000, 1001, ... in ascending order.
DescribedChain ==
    LET length == parse_usize(r_metadata[999]).value
    IN  [index |-> parse_usize(r_metadata[998]).value,
         links |-> <<>> \o [n \in 1..length |->
                              ProxyAddress_try_from(r_metadata[1000 + n - 1]).value]]

\* C12 (as claimed): for an empty static list chain() returns None when key
\* 999 is missing or holds "0", and otherwise Some of the described chain.
C12_ChainFromMetadata ==
    (r_pc = "ret" /\ r_static = <<>>) =>
        IF 999 \notin DOMAIN r_metadata \/ r_metadata[999] = decimal(0)
        THEN r_res = [status |-> "Ok", chain |-> None]
        ELSE r_res = [status |-> "Ok", chain |-> Some(DescribedChain)]

\* C12 (amended): the same for metadata without key 999 and for metadata
\* whose chain is well formed (keys 998 and 999 hold numbers, every key
\* 1000..1000+length is there and holds a proxy address).
C12_ChainFromWellFormedMetadata ==
    (r_pc = "ret" /\ r_static = <<>>) =>
        /\ 999 \notin DOMAIN r_metadata => r_res = [status |-> "Ok", chain |-> None]
        /\ (999 \in DOMAIN r_metadata /\ ~ChainMalformed) =>
            IF parse_usize(r_metadata[999]).value = 0
            THEN r_res = [status |-> "Ok", chain |-> None]
            ELSE r_res = [status |-> "Ok", chain |-> Some(DescribedChain)]

\* C12 witness: chain() returned a chain of two links read from the metadata.
C12_Witness ==
    /\ r_pc = "ret"
    /\ r_static = <<>>
    /\ r_res.status = "Ok"
    /\ r_res.chain.some
    /\ Len(r_res.chain.value.links) = 2
    /\ r_res.chain.value.links[1] # r_res.chain.value.links[2]

(***************************************************************************)
(* Claims about the order and the content of what handle_request does.     *)
(***************************************************************************)
AuthSuccessReply == InboundWrite(<<SOCKS_VER_6, SOCKS_AUTH_SUCCESS, 0, 0>>)

\* An operation reply with code Success written to the inbound stream.
IsSuccessReply(e) ==
    /\ e.ev = "write"
    /\ Len(e.bytes) = 12
    /\ e.bytes[1] = SOCKS_VER_6
    /\ e.bytes[2] = SOCKS_REP_SUCCEEDED

\* The AuthMethodAdvertisement options of an options block, in block order.
Advertisements(block) ==
    SelectSeq(read_options("release", to_be_bytes(Len(block)) \o block).options,
              LAMBDA o : o.variant = "AuthMethodAdvertisement")

\* C13 (as claimed): once the handler is past the initial data of a request
\* whose options block holds an AuthMethodAdvertisement, at whatever
\* position, it has read exactly that advertisement's initial_data_length
\* bytes of initial data.
C13_ReadsAdvertisedInitialData ==
    (h_log # <<>> /\ h_log[1] = AuthSuccessReply) =>
        LET advertisements == Advertisements(h_loc.reply_options)
        IN  advertisements # <<>> =>
                Len(h_loc.initial_data) = initial_data_length_of(advertisements[1])

\* C15 (as claimed): the authentication-success reply is written only after
\* the outbound connection was opened and the initial data written to it;
\* after a failed dial the peer has received no authentication success.
C15_AuthReplyAfterOutbound ==
    /\ \A i \in 1..Len(h_log) :
        h_log[i] = AuthSuccessReply =>
            \E j, k \in 1..(i - 1) :
                /\ j < k
                /\ h_log[j].ev = "connect" /\ h_log[j].ok
                /\ h_log[k].ev = "out_write"
    /\ (\E j \in 1..Len(h_log) : h_log[j].ev = "connect" /\ ~h_log[j].ok) =>
        \A i \in 1..Len(h_log) : h_log[i] # AuthSuccessReply

\* C16: a Success operation reply is written only after the authentication
\* reply [6,0,0,0] and a successful dial; splicing (the copy, and every
\* outbound write but the one of the initial data right after the dial)
\* comes only after that reply; after a failed dial no Success reply is
\* written.
C16_SuccessReplyOrder ==
    /\ \A i \in 1..Len(h_log) :
        IsSuccessReply(h_log[i]) =>
            /\ \E j \in 1..(i - 1) : h_log[j] = AuthSuccessReply
            /\ \E j \in 1..(i - 1) : h_log[j].ev = "connect" /\ h_log[j].ok
    /\ h_pc = "copy" => \E i \in 1..Len(h_log) : IsSuccessReply(h_log[i])
    /\ \A i \in 1..Len(h_log) :
        (h_log[i].ev = "out_write" /\ h_log[i - 1].ev # "connect") =>
            \E j \in 1..(i - 1) : IsSuccessReply(h_log[j])
    /\ (\E j \in 1..Len(h_log) : h_log[j].ev = "connect" /\ ~h_log[j].ok) =>
        \A i \in 1..Len(h_log) : ~IsSuccessReply(h_log[i])

\* C16 witness: the handler dialled, replied, spliced the peer's payload
\* and returned.
C16_Witness ==
    /\ h_ret = "Ok"
    /\ \E i \in 1..Len(h_log) : IsSuccessReply(h_log[i])
    /\ h_log[Len(h_log)].ev = "out_write"
    /\ h_log[Len(h_log)].bytes # <<>>

\* C20 (as claimed): a CONNECT request with an address type other than
\* 0x01, 0x03 and 0x04 makes the handler return an error, not crash.
C20_UnknownAddressTypeIsError ==
    (/\ h_ret # "none"
     /\ Len(h_loc.request) = 3
     /\ h_loc.request[1] = SOCKS_VER_6
     /\ h_loc.request[2] = SOCKS_CMD_CONNECT
     /\ h_loc.request[3] \notin {SOCKS_ATYP_IPV4, SOCKS_ATYP_DOMAINNAME, SOCKS_ATYP_IPV6}) =>
        h_ret = "Err"

(***************************************************************************)
(* Claims about write_reply and read_request.                              *)
(***************************************************************************)
\* C18 (as claimed): write_reply writes byte 0 the version 6, byte 1 the
\* reply code, bytes 2..4 the binding port, byte 4 the padding, byte 5 the
\* address type IPv4, a 4-byte binding address and a 2-byte options length
\* of zero.
C18_ReplyLayout ==
    Returned("write_reply") =>
        LET bytes == ret_bytes
        IN  /\ Len(bytes) = 12
            /\ bytes[1] = SOCKS_VER_6
            /\ bytes[2] = cin.reply
            /\ bytes[5] = SOCKS_PADDING
            /\ bytes[6] = SOCKS_ATYP_IPV4
            /\ bytes[11] = 0
            /\ bytes[12] = 0

\* C19 (as claimed): the initial_data_length of the request read_request
\* returns is that of the first AuthMethodAdvertisement of the options
\* block, and 0 if there is none.
C19_FirstAdvertisementLength ==
    (Returned("read_request") /\ cres.status = "Ok") =>
        LET advertisements ==
                SelectSeq(cres.options, LAMBDA o : o.variant = "AuthMethodAdvertisement")
        IN  cres.initial_data_length =
                IF advertisements = <<>> THEN 0
                ELSE initial_data_length_of(advertisements[1])

(***************************************************************************)
(* Claims about connect() and what it announces and reads.                 *)
(***************************************************************************)
\* C14 (as claimed): the initial_data_length announced in the request's
\* AuthMethodAdvertisement is the number of initial-data bytes the client
\* writes after the request.
C14_AnnouncedLengthIsWritten ==
    k_pc \in {"read_version", "read_status"} =>
        LET writes == k_events("write")
            request == read_request("release", load(writes[1].bytes))
            written == IF Len(writes) = 2 THEN stored_len(writes[2].bytes) ELSE 0
        IN  /\ request.status = "Ok"
            /\ request.initial_data_length = written

\* The handler dialled its destination.
HandlerDialled == \E i \in 1..Len(h_log) : h_log[i].ev = "connect" /\ h_log[i].ok

\* connect() waits for a byte that has not arrived.
ClientWaits == k_ret = "none" /\ k_reading /\ Len(k_proxy) - k_pos < k_want

RECURSIVE out_delivered(_)
out_delivered(log) ==
    IF log = <<>> THEN <<>>
    ELSE LET e == log[Len(log)]
         IN  out_delivered(SubSeq(log, 1, Len(log) - 1))
                \o (IF e.ev = "out_write" THEN SubSeq(e.bytes, 1, e.n) ELSE <<>>)

\* C22 (as claimed): in a run of handle_request that reaches splicing, the
\* bytes the outbound connection has taken when the copy forwards a byte
\* are exactly the initial data read from the inbound stream, in order.
C22_InitialDataBeforeSplicedBytes ==
    \A i \in 1..Len(h_log) :
        (/\ h_log[i].ev = "out_write"
         /\ \E j \in 1..(i - 1) : IsSuccessReply(h_log[j])) =>
            out_delivered(SubSeq(h_log, 1, i - 1)) = h_loc.initial_data


(***************************************************************************)
(* Claims about the redirector.                                            *)
(***************************************************************************)
\* Task t ends in a failure in this step.
TaskFails(t) ==
    /\ d_tasks[t].ret = "none"
    /\ d_tasks'[t].ret \in {"Err", "Panic"}

\* C21: each accepted connection is a task of its own; a step in which a
\* task fails (its `?` returns an error at get_original_dst,
\* try_read_initial_data, connect or bidirectional_copy, or connect panics)
\* changes that task only: main stays in its accept loop and every other
\* task is where it was, free to take its next step.  A task is cancelled
\* only when main itself has ended.
C21_TaskFailureEndsOnlyThatTask ==
    /\ [][\A t \in 1..Len(d_tasks) :
            TaskFails(t) =>
                /\ d_pc = "accept" /\ d_pc' = "accept"
                /\ d_ret = "none" /\ d_ret' = "none"
                /\ Len(d_tasks') = Len(d_tasks)
                /\ \A u \in 1..Len(d_tasks) : u # t => d_tasks'[u] = d_tasks[u]]_vars
    /\ [](\A t \in 1..Len(d_tasks) :
            /\ d_tasks[t].ret = "Cancelled" => d_ret # "none"
            /\ (d_ret = "none" /\ d_tasks[t].ret = "none") =>
                    d_tasks[t].pc \in {"get_original_dst", "try_read_initial_data",
                                       "connect", "bidirectional_copy"})

\* C21 witness: with MaxConnections connections accepted, one task has
\* failed with an error and one by a panic, another is still copying, and
\* main is in its accept loop.
C21_Witness ==
    /\ d_pc = "accept"
    /\ d_ret = "none"
    /\ Len(d_tasks) = MaxConnections
    /\ \E t, u, v \in 1..Len(d_tasks) :
        /\ d_tasks[t].ret = "Err"
        /\ d_tasks[u].ret = "Panic"
        /\ d_tasks[v].ret = "none" /\ d_tasks[v].pc = "bidirectional_copy"

====
